---- MODULE Spec2Model ----
(***************************************************************************)
(* Layered settings resolution of Opencast Studio: the SettingsManager     *)
(* (local storage, settings.toml and URL query fragments), the schema      *)
(* driven validation and the deepmerge based merging of the fragments.     *)
(*                                                                         *)
(* JavaScript values are tagged records, strings are sequences of          *)
(* characters, objects are functions from their own enumerable keys to     *)
(* values together with the prototype they were created with.              *)
(***************************************************************************)
EXTENDS Integers, Sequences, FiniteSets, TLC

\* ------------------------------------------------------------------------
\* JavaScript values
\* ------------------------------------------------------------------------

Undefined == [t |-> "undefined"]
Null == [t |-> "null"]
Bool(b) == [t |-> "boolean", v |-> b]
\* An integral number.
Num(n) == [t |-> "number", v |-> n, half |-> FALSE]
\* The non-integral number n + 0.5.
NumHalf(n) == [t |-> "number", v |-> n, half |-> TRUE]
Str(s) == [t |-> "string", v |-> s]
Arr(s) == [t |-> "array", v |-> s]
\* An ordinary object ({...}, JSON.parse, deepmerge's destination).
Obj(f) == [t |-> "object", proto |-> "Object", v |-> f]
\* An object without prototype (Object.create(null), a TOML table).
Bare(f) == [t |-> "object", proto |-> "null", v |-> f]
\* A Map from role to actions.
MapOf(f) == [t |-> "Map", v |-> f]
\* Object(primitive): a String, Number or Boolean wrapper object.
Boxed(p) == [t |-> "boxed", v |-> p]
\* A built-in function object (reached through a prototype).
BuiltinFunction == [t |-> "function"]
\* An exception thrown by a validator (caught by validateValue).
Thrown == [t |-> "throw", v |-> "Error"]
\* The exception of unreachable(), which nothing catches.
Unreachable == [t |-> "throw", v |-> "unreachable"]
\* A TypeError raised by the language itself.
TypeError == [t |-> "throw", v |-> "TypeError"]

NoKeys == <<>>

TypeOf(x) ==
  CASE x.t \in {"undefined", "boolean", "number", "string", "function"} -> x.t
    [] OTHER -> "object"

IsObjectLike(x) == x.t \in {"object", "array", "Map", "boxed"}

\* The property names every ordinary object inherits from Object.prototype
\* (those the model looks at).
ObjectPrototypeKeys == {"constructor", "toString", "valueOf", "hasOwnProperty"}

IndexStr == <<"0", "1", "2", "3">>

\* Object.keys / Object.entries: the own enumerable string keys.
OwnKeys(x) ==
  CASE x.t = "object" -> DOMAIN x.v
    [] x.t = "array" -> {IndexStr[i] : i \in 1..Len(x.v)}
    [] x.t = "boxed" /\ x.v.t = "string" -> {IndexStr[i] : i \in 1..Len(x.v.v)}
    [] OTHER -> {}

\* ------------------------------------------------------------------------
\* Strings
\* ------------------------------------------------------------------------

Digits == {"0", "1", "2", "3", "4", "5", "6", "7", "8", "9"}

DigitVal(c) ==
  CASE c = "0" -> 0 [] c = "1" -> 1 [] c = "2" -> 2 [] c = "3" -> 3
    [] c = "4" -> 4 [] c = "5" -> 5 [] c = "6" -> 6 [] c = "7" -> 7
    [] c = "8" -> 8 [] c = "9" -> 9

RECURSIVE DigitsValue(_)
DigitsValue(s) ==
  IF s = <<>> THEN 0
  ELSE 10 * DigitsValue(SubSeq(s, 1, Len(s) - 1)) + DigitVal(s[Len(s)])

StartsWith(s, p) == Len(s) >= Len(p) /\ SubSeq(s, 1, Len(p)) = p

WhiteSpace == {" ", "\t", "\n", "\r"}

RECURSIVE TrimStart(_)
TrimStart(s) ==
  IF s # <<>> /\ s[1] \in WhiteSpace THEN TrimStart(Tail(s)) ELSE s

RECURSIVE TrimEnd(_)
TrimEnd(s) ==
  IF s # <<>> /\ s[Len(s)] \in WhiteSpace
  THEN TrimEnd(SubSeq(s, 1, Len(s) - 1)) ELSE s

Trim(s) == TrimEnd(TrimStart(s))

\* /^[-+]?(\d+)$/.test(s)
IsIntLiteral(s) ==
  LET body == IF s # <<>> /\ s[1] \in {"-", "+"} THEN Tail(s) ELSE s
  IN Len(body) >= 1 /\ \A i \in 1..Len(body) : body[i] \in Digits

\* Number(s) for a string that matches the integer pattern.
NumberOf(s) ==
  IF s[1] = "-" THEN 0 - DigitsValue(Tail(s))
  ELSE IF s[1] = "+" THEN DigitsValue(Tail(s))
  ELSE DigitsValue(s)

\* The characters of a few words.
S_true == <<"t", "r", "u", "e">>
S_false == <<"f", "a", "l", "s", "e">>
S_null == <<"n", "u", "l", "l">>
S_hidden == <<"h", "i", "d", "d", "e", "n">>
S_optional == <<"o", "p", "t", "i", "o", "n", "a", "l">>
S_required == <<"r", "e", "q", "u", "i", "r", "e", "d">>
S_opencast == <<"o", "p", "e", "n", "c", "a", "s", "t">>
S_http == <<"h", "t", "t", "p">>
S_https == <<"h", "t", "t", "p", "s">>

\* ------------------------------------------------------------------------
\* JSON.parse of a text, for the texts a query value can hold in the model:
\* the literals, integers, strings without escapes, arrays of these, and {}.
\* ------------------------------------------------------------------------

Quote == "\""

\* -?(0|[1-9][0-9]*)
IsJsonInt(s) ==
  LET body == IF s # <<>> /\ s[1] = "-" THEN Tail(s) ELSE s
  IN /\ Len(body) >= 1
     /\ \A i \in 1..Len(body) : body[i] \in Digits
     /\ (Len(body) > 1 => body[1] # "0")

IsJsonString(s) ==
  /\ Len(s) >= 2
  /\ s[1] = Quote
  /\ s[Len(s)] = Quote
  /\ \A i \in 2..(Len(s) - 1) : s[i] \notin {Quote, "\\"}

JsonScalarOf(s) ==
  IF s = S_true THEN Bool(TRUE)
  ELSE IF s = S_false THEN Bool(FALSE)
  ELSE IF s = S_null THEN Null
  ELSE IF IsJsonInt(s) THEN Num(NumberOf(s))
  ELSE IF IsJsonString(s) THEN Str(SubSeq(s, 2, Len(s) - 1))
  ELSE Thrown

JsonScalar(text) == JsonScalarOf(Trim(text))

\* The pieces of s between its commas.
RECURSIVE SplitComma(_)
SplitComma(s) ==
  IF \A i \in 1..Len(s) : s[i] # ","
  THEN <<s>>
  ELSE LET i == CHOOSE j \in 1..Len(s) :
                  s[j] = "," /\ \A k \in 1..(j - 1) : s[k] # ","
       IN <<SubSeq(s, 1, i - 1)>> \o SplitComma(SubSeq(s, i + 1, Len(s)))

JsonArrayOf(elems) ==
  IF \E i \in 1..Len(elems) : elems[i] = Thrown THEN Thrown ELSE Arr(elems)

JsonElements(parts) ==
  JsonArrayOf([i \in 1..Len(parts) |-> JsonScalar(parts[i])])

JsonArray(inner) ==
  IF inner = <<>> THEN Arr(<<>>) ELSE JsonElements(SplitComma(inner))

JsonParseTrimmed(s) ==
  IF Len(s) >= 2 /\ s[1] = "[" /\ s[Len(s)] = "]"
  THEN JsonArray(Trim(SubSeq(s, 2, Len(s) - 1)))
  ELSE IF Len(s) >= 2 /\ s[1] = "{" /\ s[Len(s)] = "}"
  THEN IF Trim(SubSeq(s, 2, Len(s) - 1)) = <<>> THEN Obj(NoKeys) ELSE Thrown
  ELSE JsonScalarOf(s)

JsonParse(text) == JsonParseTrimmed(Trim(text))

\* decodeURIComponent: the text itself when it holds no escape. The texts of
\* the model hold '%' only as a malformed escape, which raises URIError.
DecodeURIComponent(s) ==
  IF \E i \in 1..Len(s) : s[i] = "%" THEN Thrown ELSE Str(s)

\* ------------------------------------------------------------------------
\* Type validators.  A validator returns the validated value, Undefined
\* ("keep the input") or Thrown.
\* ------------------------------------------------------------------------

\* Validators are named by records, so that array(...) and
\* onlyFromServer(...) can wrap another validator.
V(name) == [k |-> name]
VArray(elementType) == [k |-> "array", elem |-> elementType]
VOnlyFromServer(inner) == [k |-> "onlyFromServer", inner |-> inner]

types_string(v) == IF v.t = "string" THEN v ELSE Thrown

\* Number.isInteger(v)
IsInteger(v) == v.t = "number" /\ ~v.half

types_int_ignoresAllowParse(v, allowParse) ==
  IF IsInteger(v) THEN v
  ELSE IF v.t = "string" /\ IsIntLiteral(v.v) THEN Num(NumberOf(v.v))
  ELSE Thrown

types_int(v, allowParse) ==
  IF IsInteger(v) THEN v
  ELSE IF allowParse /\ v.t = "string"
       THEN IF IsIntLiteral(v.v) THEN Num(NumberOf(v.v)) ELSE Thrown
       ELSE Thrown

types_boolean(v, allowParse) ==
  IF v.t = "boolean" THEN v
  ELSE IF allowParse
       THEN IF v = Str(S_true) THEN Bool(TRUE)
            ELSE IF v = Str(S_false) THEN Bool(FALSE)
            ELSE Thrown
       ELSE Thrown

\* The test i <= 0 of positiveInteger, on the result i of types.int.
positiveOnly(i) ==
  IF i.t = "throw" THEN i
  ELSE IF i.v <= 0 THEN Thrown
  ELSE i

types_positiveInteger(v, allowParse) == positiveOnly(types_int(v, allowParse))

FORM_FIELD_STATES == {S_hidden, S_optional, S_required}

metaDataField(v) ==
  IF v.t # "string" THEN Thrown
  ELSE IF v.v \notin FORM_FIELD_STATES THEN Thrown
  ELSE v

PRESENTER_SOURCES == {S_opencast}

presenterSource(v) ==
  LET s == types_string(v)
  IN IF s.t = "throw" THEN s
     ELSE IF s.v \notin PRESENTER_SOURCES THEN Thrown
     ELSE s

Letters ==
  {"a", "b", "c", "d", "e", "f", "g", "h", "i", "j", "k", "l", "m", "n",
   "o", "p", "q", "r", "s", "t", "u", "v", "w", "x", "y", "z"}

\* new URL(s).protocol without its colon, or Thrown when new URL(s) throws:
\* an absolute URL starts with a scheme and a colon, and an http(s) URL
\* needs a host.
NewURLProtocol(s) ==
  IF \A i \in 1..Len(s) : s[i] # ":" THEN Thrown
  ELSE LET c == CHOOSE j \in 1..Len(s) :
                  s[j] = ":" /\ \A k \in 1..(j - 1) : s[k] # ":"
           scheme == SubSeq(s, 1, c - 1)
           rest == SubSeq(s, c + 1, Len(s))
           host == SelectSeq(rest, LAMBDA ch : ch \notin {"/", "\\"})
       IN IF scheme = <<>> \/ scheme[1] \notin Letters THEN Thrown
          ELSE IF \E i \in 1..Len(scheme) :
                    scheme[i] \notin Letters \cup Digits \cup {"+", "-", "."}
               THEN Thrown
          ELSE IF scheme \in {S_http, S_https} /\ host = <<>> THEN Thrown
          ELSE Str(scheme)

opencast_serverUrl(v) ==
  LET s == types_string(v)
  IN IF s.t = "throw" THEN s
     ELSE IF s.v = <<"/">> \/ s.v = <<>> THEN Undefined
     ELSE LET protocol == NewURLProtocol(s.v)
          IN IF protocol.t = "throw" THEN protocol
             ELSE IF protocol.v \notin {S_https, S_http} THEN Thrown
             ELSE v

return_target(v) ==
  IF v.t # "string" THEN Thrown
  ELSE IF ~(StartsWith(v.v, <<"/">>) \/ StartsWith(v.v, S_http)) THEN Thrown
  ELSE v

IndexOf(key) == CHOOSE i \in 1..Len(IndexStr) : IndexStr[i] = key

\* The value Object.entries(x) pairs with key.
EntryValue(x, key) ==
  CASE x.t = "object" -> x.v[key]
    [] x.t = "array" -> x.v[IndexOf(key)]
    [] x.t = "boxed" -> Str(<<x.v.v[IndexOf(key)]>>)

IsStringArray(value) ==
  value.t = "array" /\ \A i \in 1..Len(value.v) : value.v[i].t = "string"

\* The last part of the acl validator: obj is v, or what was parsed from it.
aclOfObject(obj) ==
  IF obj.t = "throw" THEN obj
  ELSE IF TypeOf(obj) = "object" /\ obj # Null
  THEN IF \E key \in OwnKeys(obj) : ~IsStringArray(EntryValue(obj, key))
       THEN Thrown
       ELSE MapOf([key \in OwnKeys(obj) |-> EntryValue(obj, key)])
  ELSE Thrown

\* JSON.parse(json), for the result json of decodeURIComponent.
parseDecoded(json) == IF json.t = "throw" THEN json ELSE JsonParse(json.v)

upload_acl(v, allowParse) ==
  IF (allowParse /\ v = Str(S_false)) \/ v = Bool(FALSE) THEN Bool(FALSE)
  ELSE IF (allowParse /\ v = Str(S_true)) \/ v = Bool(TRUE) THEN Bool(TRUE)
  ELSE IF v.t = "string" /\ StartsWith(Trim(v.v), <<"<">>) THEN v
  ELSE aclOfObject(IF allowParse /\ v.t = "string"
                   THEN parseDecoded(DecodeURIComponent(v.v))
                   ELSE v)

\* Object(v), what schema["constructor"] is.
Object_constructor(v) ==
  IF v \in {Undefined, Null} THEN Obj(NoKeys)
  ELSE IF IsObjectLike(v) THEN v
  ELSE Boxed(v)

RECURSIVE Apply(_, _, _, _)

\* v.map(element => elementType(element, allowParse, src)), given the
\* results for the elements.
arrayOfValidated(elems) ==
  IF \E i \in 1..Len(elems) : elems[i].t = "throw" THEN Thrown
  ELSE Arr(elems)

\* The array validator after the JSON.parse of a string.
arrayOfParsed(elementType, parsed, allowParse, src) ==
  IF parsed.t = "throw" THEN Thrown
  ELSE IF parsed.t # "array" THEN Thrown
  ELSE arrayOfValidated([i \in 1..Len(parsed.v) |->
                           Apply(elementType, parsed.v[i], allowParse, src)])

types_array(elementType, v, allowParse, src) ==
  arrayOfParsed(elementType,
                IF v.t = "string" /\ allowParse THEN JsonParse(v.v) ELSE v,
                allowParse, src)

\* The duplicate check of autofillPresenter on the validated array a.
withoutDuplicates(a) ==
  IF a.t = "throw" THEN a
  ELSE IF Cardinality({a.v[i] : i \in 1..Len(a.v)}) < Len(a.v) THEN Thrown
  ELSE a

upload_autofillPresenter(v, allowParse, src) ==
  withoutDuplicates(types_array(V("presenterSource"), v, allowParse, src))

onlyFromServer(inner, v, allowParse, src) ==
  IF src # "src-server" THEN Thrown
  ELSE Apply(inner, v, allowParse, src)

\* validation(value, allowParse, src)
Apply(validation, v, allowParse, src) ==
  CASE validation.k = "string" -> types_string(v)
    [] validation.k = "int" -> types_int(v, allowParse)
    [] validation.k = "boolean" -> types_boolean(v, allowParse)
    [] validation.k = "positiveInteger" -> types_positiveInteger(v, allowParse)
    [] validation.k = "array" -> types_array(validation.elem, v, allowParse, src)
    [] validation.k = "metaDataField" -> metaDataField(v)
    [] validation.k = "presenterSource" -> presenterSource(v)
    [] validation.k = "onlyFromServer" ->
         onlyFromServer(validation.inner, v, allowParse, src)
    [] validation.k = "serverUrl" -> opencast_serverUrl(v)
    [] validation.k = "acl" -> upload_acl(v, allowParse)
    [] validation.k = "autofillPresenter" ->
         upload_autofillPresenter(v, allowParse, src)
    [] validation.k = "target" -> return_target(v)
    \* Functions a schema object inherits, called with this = undefined.
    [] validation.k = "Object" -> Object_constructor(v)
    [] validation.k = "Object.prototype.toString" ->
         Str(<<"[object Undefined]">>)
    [] validation.k \in {"Object.prototype.valueOf",
                         "Object.prototype.hasOwnProperty"} -> TypeError

\* ------------------------------------------------------------------------
\* The schema
\* ------------------------------------------------------------------------

Leaf(validation) == [t |-> "validator", v |-> validation]
Namespace(f) == [t |-> "schema", v |-> f]

SCHEMA ==
  Namespace([
    opencast |-> Namespace([
      serverUrl |-> Leaf(V("serverUrl")),
      loginName |-> Leaf(V("string")),
      loginPassword |-> Leaf(V("string")),
      loginProvided |-> Leaf(V("boolean"))]),
    upload |-> Namespace([
      seriesId |-> Leaf(V("string")),
      workflowId |-> Leaf(V("string")),
      acl |-> Leaf(V("acl")),
      dcc |-> Leaf(V("string")),
      titleField |-> Leaf(V("metaDataField")),
      presenterField |-> Leaf(V("metaDataField")),
      seriesField |-> Leaf(V("metaDataField")),
      autofillPresenter |-> Leaf(V("autofillPresenter"))]),
    recording |-> Namespace([
      videoBitrate |-> Leaf(V("positiveInteger")),
      mimes |-> Leaf(VArray(V("string")))]),
    review |-> Namespace([
      disableCutting |-> Leaf(V("boolean"))]),
    display |-> Namespace([
      maxFps |-> Leaf(V("positiveInteger")),
      maxHeight |-> Leaf(V("positiveInteger"))]),
    camera |-> Namespace([
      maxFps |-> Leaf(V("positiveInteger")),
      maxHeight |-> Leaf(V("positiveInteger"))]),
    return |-> Namespace([
      allowedDomains |-> Leaf(VOnlyFromServer(VArray(V("string")))),
      label |-> Leaf(V("string")),
      target |-> Leaf(V("target"))])])

\* key in schema: the schema objects are object literals, so the names of
\* Object.prototype are "in" them too.
KeyInSchema(key, schema) ==
  key \in DOMAIN schema.v \/ key \in ObjectPrototypeKeys

\* schema[key]
SchemaAt(schema, key) ==
  IF key \in DOMAIN schema.v THEN schema.v[key]
  ELSE IF key = "constructor" THEN Leaf(V("Object"))
  ELSE Leaf(V("Object.prototype." \o key))

\* ------------------------------------------------------------------------
\* validate
\* ------------------------------------------------------------------------

\* newValue === undefined ? value : newValue, and null after a throw.
valueOrInput(newValue, value) ==
  IF newValue.t = "throw" THEN Null
  ELSE IF newValue = Undefined THEN value
  ELSE newValue

validateValue(validation, value, allowParse, src) ==
  valueOrInput(Apply(validation, value, allowParse, src), value)

RECURSIVE validateNode(_, _, _, _)

\* out, given the validated value of every key of obj that is in the
\* schema: the keys whose value is not null, unless a validation threw.
collect(validated) ==
  IF \E key \in DOMAIN validated : validated[key].t = "throw"
  THEN Unreachable
  ELSE Bare([key \in {k \in DOMAIN validated : validated[k] # Null} |->
               validated[key]])

validateObj(schema, obj, allowParse, src) ==
  collect([key \in {k \in OwnKeys(obj) : KeyInSchema(k, schema)} |->
             validateNode(SchemaAt(schema, key), EntryValue(obj, key),
                          allowParse, src)])

\* The inner validate(schema, obj, path).
validateNode(schema, obj, allowParse, src) ==
  IF schema.t = "validator"
  THEN validateValue(schema.v, obj, allowParse, src)
  ELSE IF obj \notin {Undefined, Null} /\ TypeOf(obj) = "object"
  THEN validateObj(schema, obj, allowParse, src)
  ELSE Unreachable

\* validate(obj, allowParse, src, sourceDescription); the description is
\* only used in log messages.
validate(obj, allowParse, src) == validateNode(SCHEMA, obj, allowParse, src)

\* ------------------------------------------------------------------------
\* deepmerge with mergeOptions (arrayMerge: the source array replaces the
\* target array; isMergeableObject: isPlainObject)
\* ------------------------------------------------------------------------

\* The property names x has without owning them as enumerable data.
InheritedKeys(x) ==
  CASE x.t = "object" ->
         IF x.proto = "Object" THEN ObjectPrototypeKeys ELSE {}
    [] x.t = "array" -> ObjectPrototypeKeys \cup {"length"}
    [] x.t = "Map" -> ObjectPrototypeKeys \cup {"size", "get", "set", "has"}
    [] x.t = "boxed" -> ObjectPrototypeKeys \cup {"length"}
    [] x.t = "function" -> ObjectPrototypeKeys \cup {"name", "length", "prototype"}
    [] OTHER -> {}

\* key in x, for an x that is not a primitive.
In(key, x) == key \in OwnKeys(x) \/ key \in InheritedKeys(x)

\* x[key]
Get(x, key) ==
  IF key \in OwnKeys(x) THEN EntryValue(x, key)
  ELSE IF key \in InheritedKeys(x) THEN BuiltinFunction
  ELSE Undefined

\* isPlainObject of is-plain-object: an [object Object] whose constructor
\* is undefined or a function with an object-like prototype.
isPlainObject(o) ==
  /\ o.t = "object"
  /\ LET ctor == Get(o, "constructor")
     IN \/ ctor = Undefined
        \/ ctor = BuiltinFunction
        \/ /\ IsObjectLike(ctor)
           /\ LET prot == Get(ctor, "prototype")
              IN prot.t = "object" /\ "isPrototypeOf" \in OwnKeys(prot)

\* property in object, false when the "in" throws (a primitive object).
propertyIsOnObject(object, property) ==
  (IsObjectLike(object) \/ object.t = "function") /\ In(property, object)

propertyIsUnsafe(target, key) ==
  propertyIsOnObject(target, key) /\ ~(key \in OwnKeys(target))

RECURSIVE deepmerge(_, _)

cloneUnlessOtherwiseSpecified(value) ==
  IF isPlainObject(value) THEN deepmerge(Obj(NoKeys), value) ELSE value

mergeObject(target, source) ==
  LET kept == IF isPlainObject(target)
              THEN OwnKeys(target) \ OwnKeys(source) ELSE {}
      added == {key \in OwnKeys(source) : ~propertyIsUnsafe(target, key)}
  IN Obj([key \in kept \cup added |->
       IF key \in added
       THEN IF propertyIsOnObject(target, key)
               /\ isPlainObject(source.v[key])
            THEN deepmerge(EntryValue(target, key), source.v[key])
            ELSE cloneUnlessOtherwiseSpecified(source.v[key])
       ELSE cloneUnlessOtherwiseSpecified(EntryValue(target, key))])

deepmerge(target, source) ==
  IF (source.t = "array") # (target.t = "array")
  THEN cloneUnlessOtherwiseSpecified(source)
  ELSE IF source.t = "array" THEN source
  ELSE mergeObject(target, source)

merge(a, b) == deepmerge(a, b)

\* deepmerge.all: a left fold that starts from {}.
RECURSIVE mergeAllFrom(_, _)
mergeAllFrom(prev, array) ==
  IF array = <<>> THEN prev
  ELSE mergeAllFrom(deepmerge(prev, Head(array)), Tail(array))

mergeAll(array) == mergeAllFrom(Obj(NoKeys), array)

\* ------------------------------------------------------------------------
\* JSON texts in local storage.  A text is kept as the value JSON.parse
\* gives for it, or Thrown when it does not parse.
\* ------------------------------------------------------------------------

Text(json) == [t |-> "text", json |-> json]

\* What JSON.stringify keeps of a value: a Map has no own enumerable
\* properties, a wrapper object is written as its primitive, undefined and
\* functions are left out of objects and written as null in arrays.
RECURSIVE ToJSON(_)
ToJSON(x) ==
  CASE x.t = "object" ->
         Obj([key \in {k \in DOMAIN x.v :
                         x.v[k].t \notin {"undefined", "function"}} |->
                ToJSON(x.v[key])])
    [] x.t = "array" ->
         Arr([i \in 1..Len(x.v) |->
                IF x.v[i].t \in {"undefined", "function"} THEN Null
                ELSE ToJSON(x.v[i])])
    [] x.t = "Map" -> Obj(NoKeys)
    [] x.t = "boxed" -> x.v
    [] OTHER -> x

JSON_stringify(value) == Text(ToJSON(value))

JSON_parse(text) == text.json

\* ------------------------------------------------------------------------
\* The environment of a session: the local storage entry, the answer of the
\* server to the fetch of settings.toml, and the query of the URL.
\* ------------------------------------------------------------------------

\* TOML texts, each written as one token, with the table parseToml gives.
TOML_SERVER_A ==
  <<"[return] allowedDomains=['a'] label='s' [recording] mimes=['m','n'] [upload.acl] r=['w']">>
TOML_SERVER_B ==
  <<"[opencast] loginName='' loginProvided=false serverUrl='https://a' [recording] videoBitrate=7">>
TOML_NAMESPACE_IS_NUMBER == <<"opencast = 5">>
TOML_PACKED ==
  <<"[upload] seriesId='abc' [return] allowedDomains=['e'] [recording] videoBitrate='9'">>
TOML_GARBAGE == <<"= = =">>
TOML_SERVER_C == <<"[opencast] loginProvided=true loginPassword='s'">>

A_a == Str(<<"a">>)
A_e == Str(<<"e">>)
A_s == Str(<<"s">>)
A_p == Str(<<"p">>)
A_u == Str(<<"u">>)
A_x == Str(<<"x">>)
A_abc == Str(<<"a", "b", "c">>)
A_url == Str(<<"h", "t", "t", "p", "s", ":", "/", "/", "a">>)

\* parseToml(text): the table of the text, or Thrown.
parseToml(text) ==
  CASE text = TOML_SERVER_A ->
         Bare([return |-> Bare([allowedDomains |-> Arr(<<A_a>>),
                                label |-> A_s]),
               recording |-> Bare([mimes |-> Arr(<<Str(<<"m">>), Str(<<"n">>)>>)]),
               upload |-> Bare([acl |-> Bare([r |-> Arr(<<Str(<<"w">>)>>)])])])
    [] text = TOML_SERVER_B ->
         Bare([opencast |-> Bare([loginName |-> Str(<<>>),
                                  loginProvided |-> Bool(FALSE),
                                  serverUrl |-> A_url]),
               recording |-> Bare([videoBitrate |-> Num(7)])])
    [] text = TOML_NAMESPACE_IS_NUMBER ->
         Bare([opencast |-> Num(5)])
    [] text = TOML_SERVER_C ->
         Bare([opencast |-> Bare([loginProvided |-> Bool(TRUE),
                                  loginPassword |-> A_s])])
    [] text = TOML_PACKED ->
         Bare([upload |-> Bare([seriesId |-> A_abc]),
               return |-> Bare([allowedDomains |-> Arr(<<A_e>>)]),
               recording |-> Bare([videoBitrate |-> Str(<<"9">>)])])
    [] OTHER -> Thrown

\* decodeHexString(input): the hex encoding of a text is written as the
\* token "hex:" followed by the text; anything else is not hexadecimal.
decodeHexString(input) ==
  IF input # <<>> /\ Head(input) = "hex:" THEN Str(Tail(input)) ELSE Thrown

Hex(text) == <<"hex:">> \o text

\* The answer of the server to the fetch: the fetch rejects (a network
\* error), or it gives a status, a Content-Type and a body.
Response(rejected, status, contentType, body) ==
  [rejected |-> rejected, status |-> status, contentType |-> contentType,
   body |-> body]

Responses ==
  {Response(TRUE, 0, "", <<>>),
   Response(FALSE, 404, "text/html", <<"<html>">>),
   Response(FALSE, 500, "text/plain", <<>>),
   Response(FALSE, 200, "text/html; charset=utf-8", <<"<html>">>),
   Response(FALSE, 200, "application/toml", TOML_GARBAGE),
   Response(FALSE, 200, "application/toml", TOML_SERVER_A),
   Response(FALSE, 200, "", TOML_SERVER_B),
   Response(FALSE, 200, "application/toml", TOML_SERVER_C),
   Response(FALSE, 200, "application/toml", TOML_NAMESPACE_IS_NUMBER)}

\* window.localStorage.getItem(LOCAL_STORAGE_KEY)
StoredEntries ==
  {Null,
   Text(Thrown),
   Text(Null),
   Text(Obj([opencast |-> Obj([loginName |-> A_p, loginProvided |-> Bool(TRUE)]),
             recording |-> Obj([mimes |-> Arr(<<A_u>>),
                                videoBitrate |-> Str(<<"5">>)]),
             upload |-> Obj([acl |-> Obj([q |-> Arr(<<Str(<<"r">>)>>)])])])),
   Text(Obj([return |-> Obj([allowedDomains |-> Arr(<<A_e>>),
                             label |-> Str(<<"l">>)]),
             recording |-> Obj([videoBitrate |-> Num(0 - 1)]),
             foo |-> Num(1)])),
   Text(Obj([opencast |-> Obj([constructor |-> Num(1), loginName |-> A_p]),
             constructor |-> Num(2)])),
   Text(Obj([opencast |-> A_x]))}

\* A query parameter: the key, written as its segments and the dots between
\* them, and the value.
Param(key, value) == [key |-> key, value |-> value]

K_config == <<"config">>
K_settingsFile == <<"settingsFile">>
K_loginName == <<"opencast", ".", "loginName">>
K_loginProvided == <<"opencast", ".", "loginProvided">>
K_loginPassword == <<"opencast", ".", "loginPassword">>
K_videoBitrate == <<"recording", ".", "videoBitrate">>
K_allowedDomains == <<"return", ".", "allowedDomains">>

\* window.location.search
Searches ==
  {<<>>,
   <<Param(K_loginName, <<"u">>),
     Param(K_videoBitrate, <<"5", "0", "0", "0">>)>>,
   <<Param(K_allowedDomains, <<"x">>), Param(K_loginProvided, S_true)>>,
   <<Param(K_loginProvided, S_false)>>,
   <<Param(K_config, Hex(TOML_PACKED)), Param(K_loginName, <<"u">>)>>,
   <<Param(K_config, <<>>), Param(K_loginName, <<"u">>)>>,
   <<Param(K_config, <<"z", "z">>), Param(<<"foo">>, <<"b">>)>>,
   <<Param(K_config, Hex(TOML_GARBAGE))>>,
   <<Param(K_config, Hex(TOML_NAMESPACE_IS_NUMBER))>>,
   <<Param(<<"opencast">>, <<"x">>)>>,
   <<Param(<<"return", ".", "constructor">>, <<"x">>),
     Param(<<"return", ".", "label">>, <<"y">>)>>,
   <<Param(<<"constructor">>, <<"x">>), Param(<<"foo">>, <<"b">>)>>,
   <<Param(K_settingsFile, <<"f">>), Param(K_videoBitrate, <<"-", "3">>),
     Param(<<"review", ".", "disableCutting">>, <<"y", "e", "s">>)>>,
   <<Param(K_loginName, <<"1">>),
     Param(K_loginName \o <<".", "c">>, <<"2">>)>>,
   <<Param(K_loginName \o <<".", "c">>, <<"2">>),
     Param(K_loginName, <<"1">>)>>}

\* ------------------------------------------------------------------------
\* The URL loader
\* ------------------------------------------------------------------------

RECURSIVE Concat(_)
Concat(tokens) ==
  IF tokens = <<>> THEN "" ELSE Head(tokens) \o Concat(Tail(tokens))

\* key.split(".")
RECURSIVE split(_)
split(key) ==
  IF \A i \in 1..Len(key) : key[i] # "."
  THEN <<Concat(key)>>
  ELSE LET i == CHOOSE j \in 1..Len(key) :
                  key[j] = "." /\ \A k \in 1..(j - 1) : key[k] # "."
       IN <<Concat(SubSeq(key, 1, i - 1))>> \o split(SubSeq(key, i + 1, Len(key)))

With(f, key, value) ==
  [k \in DOMAIN f \cup {key} |-> IF k = key THEN value ELSE f[k]]

\* The walk of one parameter: intermediate objects are created when the
\* segment is not "in" obj, and the value is assigned at the last segment.
\* Both the "in" and the assignment raise a TypeError when obj is a string
\* that an earlier parameter has put there.
RECURSIVE assignPath(_, _, _)
assignPath(obj, segments, value) ==
  IF obj.t # "object" THEN TypeError
  ELSE IF Len(segments) = 1
  THEN Bare(With(obj.v, segments[1], value))
  ELSE LET segment == Head(segments)
           next == IF segment \in DOMAIN obj.v
                   THEN obj.v[segment] ELSE Bare(NoKeys)
           done == assignPath(next, Tail(segments), value)
       IN IF done.t = "throw" THEN done
          ELSE Bare(With(obj.v, segment, done))

\* The loop over the parameters, in their order.
RECURSIVE rawUrlSettings(_, _)
rawUrlSettings(obj, params) ==
  IF params = <<>> \/ obj.t = "throw" THEN obj
  ELSE rawUrlSettings(
         assignPath(obj, split(Head(params).key), Str(Head(params).value)),
         Tail(params))

\* urlParams.delete(name)
deleteParam(params, name) == SelectSeq(params, LAMBDA q : q.key # name)

HasParam(params, name) == \E i \in 1..Len(params) : params[i].key = name

\* urlParams.get(name): the first value, or null.
getParam(params, name) ==
  IF HasParam(params, name)
  THEN Str(params[CHOOSE i \in 1..Len(params) :
                    params[i].key = name
                    /\ \A j \in 1..(i - 1) : params[j].key # name].value)
  ELSE Null

\* parseToml(decoded) of decodeAndParse, null when either step throws.
parseDecodedToml(decoded) ==
  IF decoded.t = "throw" THEN Null
  ELSE IF parseToml(decoded.v).t = "throw" THEN Null
  ELSE parseToml(decoded.v)

decodeAndParse(input) == parseDecodedToml(decodeHexString(input))

\* rawUrlSettings ?? {}
orEmptyObject(parsed) == IF parsed = Null THEN Obj(NoKeys) ELSE parsed

\* if (encodedConfig)
IsPacked(encodedConfig) == encodedConfig # Null /\ encodedConfig.v # <<>>

\* The raw settings of the query, and whether strings may be parsed.
rawOfQuery(urlParams, encodedConfig) ==
  IF IsPacked(encodedConfig)
  THEN orEmptyObject(decodeAndParse(encodedConfig.v))
  ELSE rawUrlSettings(Bare(NoKeys), urlParams)

validateQuery(raw, allowParse) ==
  IF raw.t = "throw" THEN raw ELSE validate(raw, allowParse, "src-url")

queryOf(urlParams) ==
  validateQuery(rawOfQuery(urlParams, getParam(urlParams, K_config)),
                ~IsPacked(getParam(urlParams, K_config)))

\* The URL part of init: the validated urlSettings, or what it throws.
urlSettingsOf(search) == queryOf(deleteParam(search, K_settingsFile))

\* loadContextSettings(): the parsed file, null when there is none, or the
\* SyntaxError it throws.
SyntaxError == [t |-> "throw", v |-> "SyntaxError"]

\* response.ok
ResponseOk(response) == response.status >= 200 /\ response.status <= 299

IsHtml(contentType) ==
  contentType \in {"text/html", "text/html; charset=utf-8"}

\* parseToml(await response.text()), a SyntaxError when it throws.
parsedOrSyntaxError(parsed) ==
  IF parsed.t = "throw" THEN SyntaxError ELSE parsed

loadContextSettings(response) ==
  IF response.rejected THEN Null
  ELSE IF response.status = 404 THEN Null
  ELSE IF ~ResponseOk(response) THEN Null
  ELSE IF IsHtml(response.contentType) THEN Null
  ELSE parsedOrSyntaxError(parseToml(response.body))

\* ------------------------------------------------------------------------
\* The SettingsManager
\* ------------------------------------------------------------------------

VARIABLES
  localStorage,     \* the entry ocStudioSettings: Null or a text
  response,         \* the answer of the server to the fetch
  search,           \* the query parameters of the URL
  pc,               \* "user", "context", "url": the part of init() that is
                    \* next; "ready": init() has returned the manager;
                    \* "failed": init() has thrown
  thrown,           \* what init() has thrown and the part of it that threw
  userSettings,
  contextSettings,
  urlSettings,
  notified,         \* the settings last given to onChange, or Undefined
  previous,         \* userSettings as it was just before the reload, until
                    \* the next save
  reloaded,         \* a reload has happened and nothing was saved since
  savesValidated,   \* every document saved so far was a validated document
  call              \* one call of a validator of types: the validator, its
                    \* arguments and its result

vars ==
  <<localStorage, response, search, pc, thrown, userSettings,
    contextSettings, urlSettings, notified, previous, reloaded,
    savesValidated, call>>

\* The variables of the manager and of its environment.
managerVars ==
  <<localStorage, response, search, pc, thrown, userSettings,
    contextSettings, urlSettings, notified, previous, reloaded,
    savesValidated>>

NothingThrown == [error |-> "none", part |-> "none"]

NoCall == [validation |-> "none"]

EmptySettings == Bare(NoKeys)

settings_userLast == mergeAll(<<contextSettings, urlSettings, userSettings>>)

\* mergeAll([userSettings, contextSettings, urlSettings])
settings == mergeAll(<<userSettings, contextSettings, urlSettings>>)

fixedSettings == merge(contextSettings, urlSettings)

\* The walk of isConfigurable: Bool(TRUE), Bool(FALSE), or the TypeError of
\* an "in" whose right-hand side is a primitive.
RECURSIVE isConfigurableFrom(_, _)
isConfigurableFrom(obj, segments) ==
  IF segments = <<>> THEN Bool(FALSE)
  ELSE IF ~(IsObjectLike(obj) \/ obj.t = "function") THEN TypeError
  ELSE IF ~In(Head(segments), obj) THEN Bool(TRUE)
  ELSE isConfigurableFrom(Get(obj, Head(segments)), Tail(segments))

isConfigurable_readsSettings(path) ==
  isConfigurableFrom(settings, split(path))

isConfigurable(path) == isConfigurableFrom(fixedSettings, split(path))

\* fixedSettings().opencast?.loginProvided
fixedLoginProvided ==
  IF Get(fixedSettings, "opencast") \in {Undefined, Null} THEN Undefined
  ELSE Get(Get(fixedSettings, "opencast"), "loginProvided")

\* isConfigurable(path) && fixedSettings().opencast?.loginProvided !== true
configurableUnlessProvided(configurable) ==
  IF configurable.t = "throw" THEN configurable
  ELSE Bool(configurable.v /\ fixedLoginProvided # Bool(TRUE))

isUsernameConfigurable_ignoresLoginProvided == isConfigurable(K_loginName)

isUsernameConfigurable ==
  configurableUnlessProvided(isConfigurable(K_loginName))

isPasswordConfigurable ==
  configurableUnlessProvided(isConfigurable(K_loginPassword))

\* The documents the application saves.  The first are validated documents
\* for local storage, the next has the shape of Settings but values no
\* validator accepts from local storage, the last two have another shape.
ValidatedSaves ==
  {validate(Obj([opencast |-> Obj([loginName |-> Str(<<"q">>)])]),
            FALSE, "src-local-storage"),
   validate(Obj([upload |-> Obj([acl |-> Obj([r |-> Arr(<<Str(<<"w">>)>>)])]),
                 recording |-> Obj([mimes |-> Arr(<<Str(<<"k">>)>>)])]),
            FALSE, "src-local-storage")}

UnvalidatedSaves ==
  {Obj([recording |-> Obj([videoBitrate |-> Num(0 - 1)]),
        return |-> Obj([allowedDomains |-> Arr(<<A_e>>)])]),
   Obj([opencast |-> Obj([loginName |-> Obj([x |-> Num(1)])]),
        recording |-> Arr(<<A_x>>)]),
   Obj([opencast |-> Obj([loginProvided |-> Num(1), serverUrl |-> Arr(<<>>)]),
        upload |-> Obj([acl |-> A_x]),
        return |-> A_x])}

SaveDocuments == ValidatedSaves \cup UnvalidatedSaves

Init ==
  /\ localStorage \in StoredEntries
  /\ response \in Responses
  /\ search \in Searches
  /\ pc = "user"
  /\ thrown = NothingThrown
  /\ userSettings = EmptySettings
  /\ contextSettings = EmptySettings
  /\ urlSettings = EmptySettings
  /\ notified = Undefined
  /\ previous = Undefined
  /\ reloaded = FALSE
  /\ savesValidated = TRUE
  /\ call = NoCall

\* JSON.parse(stored) inside its try: undefined when it throws.
parsedOrUndefined(parsed) == IF parsed.t = "throw" THEN Undefined ELSE parsed

\* One part of init() ends: validated is the fragment, or what was thrown.
Continue(validated, next) ==
  IF validated.t = "throw"
  THEN pc' = "failed" /\ thrown' = [error |-> validated.v, part |-> pc]
  ELSE pc' = next /\ UNCHANGED thrown

Fragment(validated, current) ==
  IF validated.t = "throw" THEN current ELSE validated

UserSettingsLoaded(validated) ==
  /\ Continue(validated, "context")
  /\ userSettings' = Fragment(validated, userSettings)

\* init(), up to the fetch: the user settings from local storage.
LoadUserSettings ==
  /\ pc = "user"
  /\ UserSettingsLoaded(
       IF localStorage = Null THEN userSettings
       ELSE validate(parsedOrUndefined(JSON_parse(localStorage)),
                     FALSE, "src-local-storage"))
  /\ UNCHANGED <<localStorage, response, search, contextSettings,
                 urlSettings, notified, previous, reloaded, savesValidated,
                 call>>

\* loadContextSettings() || Object.create(null), validated.
validateContext(loaded) ==
  IF loaded.t = "throw" THEN loaded
  ELSE validate(IF loaded = Null THEN Bare(NoKeys) ELSE loaded,
                FALSE, "src-server")

ContextSettingsLoaded(validated) ==
  /\ Continue(validated, "url")
  /\ contextSettings' = Fragment(validated, contextSettings)

\* init(), after the fetch: the context settings from the server's file.
LoadContextSettings ==
  /\ pc = "context"
  /\ ContextSettingsLoaded(validateContext(loadContextSettings(response)))
  /\ UNCHANGED <<localStorage, response, search, userSettings, urlSettings,
                 notified, previous, reloaded, savesValidated, call>>

UrlSettingsLoaded(validated) ==
  /\ Continue(validated, "ready")
  /\ urlSettings' = Fragment(validated, urlSettings)

\* init(), the last part: the settings of the URL query.
LoadUrlSettings ==
  /\ pc = "url"
  /\ UrlSettingsLoaded(urlSettingsOf(search))
  /\ UNCHANGED <<localStorage, response, search, userSettings,
                 contextSettings, notified, previous, reloaded,
                 savesValidated, call>>

\* saveSettings(newSettings)
SaveSettings(newSettings) ==
  /\ pc = "ready"
  /\ userSettings' = merge(userSettings, newSettings)
  /\ localStorage' = JSON_stringify(userSettings')
  /\ notified' = mergeAll(<<userSettings', contextSettings, urlSettings>>)
  /\ reloaded' = FALSE
  /\ savesValidated' = (savesValidated /\ newSettings \in ValidatedSaves)
  /\ previous' = Undefined
  /\ UNCHANGED <<response, search, pc, thrown, contextSettings, urlSettings,
                 call>>

\* The page is loaded again: a new manager over the same local storage,
\* the same server and the same URL.
Reload ==
  /\ pc = "ready"
  /\ ~reloaded
  /\ pc' = "user"
  /\ previous' = userSettings
  /\ reloaded' = TRUE
  /\ userSettings' = EmptySettings
  /\ contextSettings' = EmptySettings
  /\ urlSettings' = EmptySettings
  /\ notified' = Undefined
  /\ UNCHANGED <<localStorage, response, search, thrown, savesValidated,
                 call>>

Next ==
  \/ LoadUserSettings
  \/ LoadContextSettings
  \/ LoadUrlSettings
  \/ \E newSettings \in SaveDocuments : SaveSettings(newSettings)
  \/ Reload

Spec == Init /\ [][Next]_vars

\* ------------------------------------------------------------------------
\* One call of a basic validator of types, on its own
\* ------------------------------------------------------------------------

\* The longest string of the generated inputs.
MaxStrLen == 2

Alphabet == {"-", "+", "0", "7", "a"}

RECURSIVE StringsUpTo(_)
StringsUpTo(n) ==
  IF n = 0 THEN {<<>>}
  ELSE StringsUpTo(n - 1)
       \cup {Append(s, c) : s \in StringsUpTo(n - 1), c \in Alphabet}

\* The values a validator is called with.
Values ==
  {Str(s) : s \in StringsUpTo(MaxStrLen)
                  \cup {S_true, S_false, <<"T", "r", "u", "e">>, <<"7", "\n">>}}
  \cup {Num(0 - 2), Num(0), Num(3), NumHalf(1), Bool(TRUE), Bool(FALSE),
        Null, Undefined}

Pending == [t |-> "pending"]

Calls ==
  [validation : {"int", "boolean", "positiveInteger"}, v : Values,
   allowParse : BOOLEAN, result : {Pending}]

InitCall ==
  /\ localStorage = Null
  /\ response = Response(TRUE, 0, "", <<>>)
  /\ search = <<>>
  /\ pc = "user"
  /\ thrown = NothingThrown
  /\ userSettings = EmptySettings
  /\ contextSettings = EmptySettings
  /\ urlSettings = EmptySettings
  /\ notified = Undefined
  /\ previous = Undefined
  /\ reloaded = FALSE
  /\ savesValidated = TRUE
  /\ call \in Calls

\* types[validation](v, allowParse)
CallValidator ==
  /\ call.result = Pending
  /\ call' = [call EXCEPT !.result =
                Apply(V(call.validation), call.v, call.allowParse, "src-url")]
  /\ UNCHANGED managerVars

ValidatorSpec == InitCall /\ [][CallValidator]_vars

\* ------------------------------------------------------------------------
\* Properties
\* ------------------------------------------------------------------------

Absent == [t |-> "absent"]

HasOwn(doc, key) == doc.t = "object" /\ key \in DOMAIN doc.v

\* The value of a document at namespace.leaf, or Absent.
LeafAt(doc, ns, leaf) ==
  IF HasOwn(doc, ns) /\ HasOwn(doc.v[ns], leaf) THEN doc.v[ns].v[leaf]
  ELSE Absent

Namespaces == DOMAIN SCHEMA.v

LeavesOf(ns) == DOMAIN SCHEMA.v[ns].v

\* A value without the prototypes of its objects.
RECURSIVE Data(_)
Data(x) ==
  CASE x.t = "object" ->
         [t |-> "object", v |-> [key \in DOMAIN x.v |-> Data(x.v[key])]]
    [] x.t = "array" -> Arr([i \in 1..Len(x.v) |-> Data(x.v[i])])
    [] x.t = "Map" -> MapOf([key \in DOMAIN x.v |-> Data(x.v[key])])
    [] OTHER -> x

\* The raw documents init() gives to validate for the server's file and for
\* the URL, and the coercion flag of the latter.
RawContext ==
  IF loadContextSettings(response) = Null THEN Bare(NoKeys)
  ELSE loadContextSettings(response)

UrlParams == deleteParam(search, K_settingsFile)

RawUrl == rawOfQuery(UrlParams, getParam(UrlParams, K_config))

UrlAllowParse == ~IsPacked(getParam(UrlParams, K_config))

\* Of the leaves of the schema a raw document gives, out holds exactly those
\* whose validator does not fail.
LeafwiseKept(raw, out, allowParse, src) ==
  \A ns \in Namespaces :
    HasOwn(raw, ns) /\ raw.v[ns].t = "object" =>
      \A leaf \in LeavesOf(ns) :
        HasOwn(raw.v[ns], leaf) =>
          (LeafAt(out, ns, leaf) = Absent
             <=> Apply(SCHEMA.v[ns].v[leaf].v, raw.v[ns].v[leaf],
                       allowParse, src).t = "throw")

\* C1: validate never throws, whatever the raw input is (a namespace whose
\* raw value is a string, a number or null, a top-level input that is
\* undefined or null); a leaf whose validator fails is left out of the output
\* and every sibling leaf whose value passes is in it.
C1_ValidateNeverThrows ==
  /\ thrown.error # "unreachable"
  /\ pc = "ready" =>
       /\ LeafwiseKept(RawContext, contextSettings, FALSE, "src-server")
       /\ LeafwiseKept(RawUrl, urlSettings, UrlAllowParse, "src-url")

\* The one fatal outcome of the fetch: a successful answer that is not HTML
\* and whose body is not TOML.
FatalServerOutcome ==
  /\ ~response.rejected
  /\ response.status # 404
  /\ response.status \in 200..299
  /\ ~IsHtml(response.contentType)
  /\ parseToml(response.body) = Thrown

\* The four outcomes that yield no server settings.
ServerYieldsNothing ==
  \/ response.rejected
  \/ response.status = 404
  \/ response.status \notin 200..299
  \/ IsHtml(response.contentType)

\* C2: init throws if and only if the fetch of the server's file gives a
\* successful answer that is not HTML and whose body fails to parse as TOML;
\* for every other local storage, URL query and server outcome it returns a
\* manager, whose contextSettings is empty when the server yields nothing.
C2_InitThrowsOnlyOnServerParseFailure ==
  /\ pc = "failed" => FatalServerOutcome
  /\ pc = "ready" =>
       /\ ~FatalServerOutcome
       /\ ServerYieldsNothing => contextSettings = EmptySettings

\* The valid return.allowedDomains of the server's file, or Absent.
ServerAllowedDomains ==
  IF IsStringArray(LeafAt(RawContext, "return", "allowedDomains"))
  THEN LeafAt(RawContext, "return", "allowedDomains")
  ELSE Absent

\* C3: after init, settings().return.allowedDomains is the validated value
\* of the server's file, or absent when the file gives no valid one, whatever
\* the URL query and the local storage hold; neither urlSettings nor
\* userSettings holds return.allowedDomains.
C3_AllowedDomainsOnlyFromServer ==
  pc = "ready" /\ notified = Undefined =>
    /\ LeafAt(settings, "return", "allowedDomains") = ServerAllowedDomains
    /\ LeafAt(urlSettings, "return", "allowedDomains") = Absent
    /\ LeafAt(userSettings, "return", "allowedDomains") = Absent

\* The first of the given values that is present.
FirstPresent(values) ==
  IF \A i \in 1..Len(values) : values[i] = Absent THEN Absent
  ELSE values[CHOOSE i \in 1..Len(values) :
                 values[i] # Absent /\ \A j \in 1..(i - 1) : values[j] = Absent]

\* C4: for every leaf path of the schema, settings() holds the value of
\* urlSettings if it has one, else that of contextSettings, else that of
\* userSettings, else nothing; so a leaf only a lower fragment gives stays
\* next to its siblings, and arrays and ACL maps are replaced as a whole.
C4_LeafPrecedence ==
  pc = "ready" =>
    \A ns \in Namespaces : \A leaf \in LeavesOf(ns) :
      Data(LeafAt(settings, ns, leaf))
        = Data(FirstPresent(<<LeafAt(urlSettings, ns, leaf),
                              LeafAt(contextSettings, ns, leaf),
                              LeafAt(userSettings, ns, leaf)>>))

\* Every segment is an own key along the walk of the document.
RECURSIVE PathExists(_, _)
PathExists(doc, segments) ==
  \/ segments = <<>>
  \/ /\ Head(segments) \in OwnKeys(doc)
     /\ PathExists(EntryValue(doc, Head(segments)), Tail(segments))

\* The paths of the settings of the schema.
SettingPaths ==
  UNION {{<<ns, ".", leaf>> : leaf \in LeavesOf(ns)} : ns \in Namespaces}

\* Dotted paths: those of the settings and a path below a setting.
DottedPaths == SettingPaths \cup {K_loginName \o <<".", "c">>}

\* A discrete URL parameter gives recording.videoBitrate the text 5000.
UrlGivesBitrate5000 ==
  /\ ~HasParam(search, K_config)
  /\ HasParam(search, K_videoBitrate)
  /\ getParam(search, K_videoBitrate) = Str(<<"5", "0", "0", "0">>)

BitrateFromUrlIsFixed ==
  UrlGivesBitrate5000 =>
    /\ LeafAt(settings, "recording", "videoBitrate") = Num(5000)
    /\ isConfigurable(K_videoBitrate) = Bool(FALSE)

\* C5, as stated: for every dotted path p, isConfigurable(p) is false if
\* and only if every segment of p exists along the walk of
\* merge(contextSettings, urlSettings), and true as soon as one is missing,
\* whatever the value at p and whatever userSettings holds; a bitrate of 5000
\* given by a discrete URL parameter is effective and not configurable.
C5_Original_EveryDottedPath ==
  pc = "ready" =>
    /\ \A p \in DottedPaths :
         isConfigurable(p)
           = Bool(~PathExists(merge(contextSettings, urlSettings), split(p)))
    /\ BitrateFromUrlIsFixed

\* C5, amended: the same for every path namespace.leaf of a setting of the
\* schema.
C5_SettingPathsConfigurable ==
  pc = "ready" =>
    /\ \A p \in SettingPaths :
         isConfigurable(p)
           = Bool(~PathExists(merge(contextSettings, urlSettings), split(p)))
    /\ BitrateFromUrlIsFixed

\* C5's case: the URL pins the bitrate to 5000, the server pins loginProvided
\* to false, and the user has mimes of their own, which nothing pins.
C5_Witness ==
  /\ pc = "ready"
  /\ UrlGivesBitrate5000
  /\ isConfigurable(K_videoBitrate) = Bool(FALSE)
  /\ LeafAt(fixedSettings, "opencast", "loginProvided") = Bool(FALSE)
  /\ isConfigurable(K_loginProvided) = Bool(FALSE)
  /\ LeafAt(userSettings, "recording", "mimes") # Absent
  /\ isConfigurable(<<"recording", ".", "mimes">>) = Bool(TRUE)

\* Every key path of the document is one of the schema.
OnlySchemaPaths(doc) ==
  \A ns \in OwnKeys(doc) :
    /\ ns \in Namespaces
    /\ \A leaf \in OwnKeys(doc.v[ns]) : leaf \in LeavesOf(ns)

\* C6: every key path in the output of validate is a key path of SCHEMA, and
\* a raw object whose keys are all unknown to the schema (constructor and
\* toString among them) gives the empty document.
C6_OnlySchemaKeys ==
  /\ pc \in {"context", "url", "ready"} /\ notified = Undefined =>
       OnlySchemaPaths(userSettings)
  /\ pc = "ready" =>
       /\ OnlySchemaPaths(contextSettings)
       /\ OnlySchemaPaths(urlSettings)
       /\ (\A key \in OwnKeys(RawUrl) : key \notin Namespaces) =>
            urlSettings = EmptySettings

\* C7: when the entry of local storage is there but is not JSON, init does
\* not fail in its local storage part: userSettings is empty and init goes on
\* with the server's file and the URL.
C7_UnparseableStorageIgnored ==
  localStorage = Text(Thrown) =>
    /\ thrown.part # "user"
    /\ pc # "user" => userSettings = EmptySettings

\* What the packed blob of the config parameter alone gives.
PackedBlobSettings ==
  validate(orEmptyObject(decodeAndParse(getParam(UrlParams, K_config).v)),
           FALSE, "src-url")

\* C8: whenever the query has a parameter config, whatever its value,
\* urlSettings comes from the packed blob alone, validated without coercion
\* and empty when the blob cannot be decoded or parsed, and nothing is
\* thrown; only without a config parameter are the other parameters read as
\* dotted paths, with coercion.
C8_ConfigParameterWins ==
  /\ HasParam(UrlParams, K_config) =>
       /\ thrown.part # "url"
       /\ pc = "ready" => urlSettings = PackedBlobSettings
  /\ ~HasParam(UrlParams, K_config) /\ pc = "ready" =>
       urlSettings
         = validate(rawUrlSettings(Bare(NoKeys), UrlParams), TRUE, "src-url")

\* An optional sign followed by one or more digits.
IsSignedDigits(s) ==
  \E k \in {0, 1} :
    /\ Len(s) > k
    /\ k = 1 => s[1] \in {"-", "+"}
    /\ \A i \in (k + 1)..Len(s) : s[i] \in Digits

\* The integer such a string writes.
SignedValue(s) ==
  IF s[1] = "-" THEN 0 - DigitsValue(SubSeq(s, 2, Len(s)))
  ELSE IF s[1] = "+" THEN DigitsValue(SubSeq(s, 2, Len(s)))
  ELSE DigitsValue(s)

\* What C9 says of the integer validator, for the inputs it speaks of.
IntegerAsClaimed(v, coercion) ==
  IF v.t = "string"
  THEN IF coercion /\ IsSignedDigits(v.v) THEN Num(SignedValue(v.v))
       ELSE Thrown
  ELSE v

BooleanAsClaimed(v, coercion) ==
  IF v.t = "string"
  THEN IF coercion /\ v.v = <<"t", "r", "u", "e">> THEN Bool(TRUE)
       ELSE IF coercion /\ v.v = <<"f", "a", "l", "s", "e">> THEN Bool(FALSE)
       ELSE Thrown
  ELSE v

PositiveAsClaimed(v, coercion) ==
  IF IntegerAsClaimed(v, coercion).t = "number"
     /\ IntegerAsClaimed(v, coercion).v <= 0
  THEN Thrown
  ELSE IntegerAsClaimed(v, coercion)

\* C9: int and boolean return an integral number, respectively a boolean,
\* unchanged under both coercion settings; they accept a string exactly when
\* coercion is allowed and the string is an optional sign and digits (giving
\* that integer), respectively "true" or "false" (giving that boolean), and
\* reject every other string; positiveInteger also rejects results <= 0.
C9_BasicValidators ==
  call.validation # "none" /\ call.result # Pending =>
    /\ call.validation = "int"
         /\ (call.v.t = "string" \/ (call.v.t = "number" /\ ~call.v.half)) =>
       call.result = IntegerAsClaimed(call.v, call.allowParse)
    /\ call.validation = "boolean" /\ call.v.t \in {"string", "boolean"} =>
       call.result = BooleanAsClaimed(call.v, call.allowParse)
    /\ call.validation = "positiveInteger"
         /\ (call.v.t = "string" \/ (call.v.t = "number" /\ ~call.v.half)) =>
       call.result = PositiveAsClaimed(call.v, call.allowParse)

\* C9's case: the string +7 is given to int with coercion and becomes 7.
C9_Witness ==
  /\ call.validation = "int"
  /\ call.v = Str(<<"+", "7">>)
  /\ call.allowParse
  /\ call.result = Num(7)

\* C10: after saves of validated documents for local storage (an upload.acl
\* map of roles among them), a fresh init over the same local storage gives
\* a userSettings equal to the userSettings held just before the reload.
C10_PersistenceRoundTrip ==
  reloaded /\ savesValidated /\ pc \in {"context", "url", "ready"} =>
    Data(userSettings) = Data(previous)

\* opencast.loginProvided is true in the document.
ProvidesLogin(doc) == LeafAt(doc, "opencast", "loginProvided") = Bool(TRUE)

\* The two predicates are what their path check and the loginProvided of
\* the fixed settings make them.
LoginPredicatesAsDerived ==
  /\ isUsernameConfigurable
       = Bool(/\ ~PathExists(merge(contextSettings, urlSettings),
                             <<"opencast", "loginName">>)
              /\ ~ProvidesLogin(merge(contextSettings, urlSettings)))
  /\ isPasswordConfigurable
       = Bool(/\ ~PathExists(merge(contextSettings, urlSettings),
                             <<"opencast", "loginPassword">>)
              /\ ~ProvidesLogin(merge(contextSettings, urlSettings)))

BothLoginPredicatesFalse ==
  isUsernameConfigurable = Bool(FALSE) /\ isPasswordConfigurable = Bool(FALSE)

\* A loginProvided = true that only userSettings holds suppresses nothing.
UserLoginProvidedIgnored ==
  /\ ProvidesLogin(userSettings)
  /\ LeafAt(merge(contextSettings, urlSettings), "opencast", "loginProvided")
       = Absent
  => /\ isUsernameConfigurable = isConfigurable(K_loginName)
     /\ isPasswordConfigurable = isConfigurable(K_loginPassword)

\* C11, as stated: isUsernameConfigurable() is true exactly when
\* isConfigurable("opencast.loginName") is true and
\* fixedSettings().opencast.loginProvided is not true, likewise
\* isPasswordConfigurable() for opencast.loginPassword; when the server's file
\* or the URL sets loginProvided = true both are false whatever else is set;
\* a loginProvided = true of userSettings alone suppresses nothing.
C11_Original_ServerOrUrlProvides ==
  pc = "ready" =>
    /\ LoginPredicatesAsDerived
    /\ ProvidesLogin(contextSettings) \/ ProvidesLogin(urlSettings) =>
         BothLoginPredicatesFalse
    /\ UserLoginProvidedIgnored

\* C11, amended: the same, with both predicates false when the URL sets
\* loginProvided = true or fixedSettings() holds loginProvided = true (a
\* value of the URL replaces the one of the server's file).
C11_LoginPredicates ==
  pc = "ready" =>
    /\ LoginPredicatesAsDerived
    /\ ProvidesLogin(urlSettings) \/ ProvidesLogin(fixedSettings) =>
         BothLoginPredicatesFalse
    /\ UserLoginProvidedIgnored

\* C11's case: the URL sets loginProvided = true and pins no login name, so
\* the path check alone would leave the name configurable.
C11_Witness ==
  /\ pc = "ready"
  /\ ProvidesLogin(urlSettings)
  /\ isConfigurable(K_loginName) = Bool(TRUE)
  /\ isUsernameConfigurable = Bool(FALSE)

\* Every leaf of the schema the document holds passes its validator without
\* coercion for the source local storage.
LeavesPassForLocalStorage(doc) ==
  \A ns \in Namespaces : \A leaf \in LeavesOf(ns) :
    LeafAt(doc, ns, leaf) # Absent =>
      Apply(SCHEMA.v[ns].v[leaf].v, LeafAt(doc, ns, leaf), FALSE,
            "src-local-storage").t # "throw"

NonPositiveNumber(value) == value.t = "number" /\ value.v <= 0

\* C12: after init and any saves of partial documents of the shape of
\* Settings, userSettings is a validated document for local storage: it
\* holds key paths of the schema only, each leaf passes its validator
\* without coercion for the source local storage, so it never holds
\* return.allowedDomains nor a recording.videoBitrate <= 0.
C12_UserSettingsStayValidated ==
  pc = "ready" =>
    /\ OnlySchemaPaths(userSettings)
    /\ LeavesPassForLocalStorage(userSettings)
    /\ LeafAt(userSettings, "return", "allowedDomains") = Absent
    /\ ~NonPositiveNumber(LeafAt(userSettings, "recording", "videoBitrate"))

\* The raw object with the value put at the path, replacing whatever an
\* earlier parameter has put on the way.
RECURSIVE PutAtPath(_, _, _)
PutAtPath(obj, segments, value) ==
  IF Len(segments) = 1 THEN Bare(With(obj.v, Head(segments), value))
  ELSE Bare(With(obj.v, Head(segments),
                 PutAtPath(IF HasOwn(obj, Head(segments))
                              /\ obj.v[Head(segments)].t = "object"
                           THEN obj.v[Head(segments)]
                           ELSE Bare(NoKeys),
                           Tail(segments), value)))

\* The raw object of the parameters, the last write winning.
RECURSIVE LastWriteWins(_, _)
LastWriteWins(obj, params) ==
  IF params = <<>> THEN obj
  ELSE LastWriteWins(
         PutAtPath(obj, split(Head(params).key), Str(Head(params).value)),
         Tail(params))

\* C13: in the discrete form of the URL, a leaf and a namespace at the same
\* dotted path (a.b=1 and a.b.c=2, in either order) do not make init fail:
\* the raw object is built with the last write winning, in the order of the
\* parameters, and is then validated.
C13_PathCollisionLastWriteWins ==
  ~IsPacked(getParam(UrlParams, K_config)) =>
    /\ ~(thrown.part = "url" /\ thrown.error = "TypeError")
    /\ pc = "ready" =>
         urlSettings
           = validate(LastWriteWins(Bare(NoKeys), UrlParams), TRUE, "src-url")

\* The path of a setting is pinned: isConfigurable answers false for it.
Pinned(ns, leaf) == isConfigurable(<<ns, ".", leaf>>) = Bool(FALSE)

\* For every pinned setting, settings() holds what fixedSettings() holds.
PinnedValuesEffective ==
  \A all \in {settings} : \A fixed \in {fixedSettings} :
    \A ns \in Namespaces : \A leaf \in LeavesOf(ns) :
      Pinned(ns, leaf) =>
        /\ LeafAt(fixed, ns, leaf) # Absent
        /\ LeafAt(all, ns, leaf) = LeafAt(fixed, ns, leaf)

\* isConfigurable answers the same for every setting path with either of two
\* values of fixedSettings().
SameAnswers(before, after) ==
  \A p \in SettingPaths :
    isConfigurableFrom(after, split(p)) = isConfigurableFrom(before, split(p))

\* A step of the session of one manager leaves the fixed fragments, and so
\* fixedSettings() and the answers of isConfigurable, as they are.
FixedSettingsKept ==
  pc = "ready" /\ pc' = "ready" =>
    /\ contextSettings' = contextSettings
    /\ urlSettings' = urlSettings
    /\ fixedSettings' = fixedSettings
    /\ \A before \in {fixedSettings} : \A after \in {fixedSettings'} :
         SameAnswers(before, after)

\* C14: saveSettings leaves contextSettings and urlSettings unchanged, so
\* fixedSettings() and every answer of isConfigurable are constant over the
\* session; and for every leaf path p of the schema that is not
\* configurable, settings() at p is fixedSettings() at p, before and after
\* any saves of arbitrary partial documents (documents that put an object,
\* an array or another type at p or at its namespace among them).
C14_SavesCannotChangePinned ==
  /\ [](pc = "ready" => PinnedValuesEffective)
  /\ [][FixedSettingsKept]_vars

\* C14's case: the server pins the bitrate to 7 and loginProvided to false,
\* the user has saved a bitrate of -1 and a loginProvided of 1.
C14_Witness ==
  /\ pc = "ready"
  /\ notified # Undefined
  /\ Pinned("recording", "videoBitrate")
  /\ LeafAt(userSettings, "recording", "videoBitrate") = Num(0 - 1)
  /\ LeafAt(settings, "recording", "videoBitrate") = Num(7)
  /\ Pinned("opencast", "loginProvided")
  /\ LeafAt(userSettings, "opencast", "loginProvided") = Num(1)
  /\ LeafAt(settings, "opencast", "loginProvided") = Bool(FALSE)

====
